---- MODULE Spec2Model ----
(***************************************************************************)
(* A model of src/beamforming.py: the beamShape, tiling, Overlap, tilegen   *)
(* and DelayPolynomial classes.                                             *)
(*                                                                          *)
(* Objects live in heaps (sequences indexed by object id); an attribute     *)
(* holding another object holds its id, so sharing is visible.  `last' is   *)
(* the record of the most recent call: its name, arguments, outcome         *)
(* ("ok" or the name of the exception that reached the caller) and the      *)
(* returned value as a sequence of length 0 (nothing returned) or 1.        *)
(*                                                                          *)
(* Lengths are fixed-point integers in thousandths of a degree, overlap     *)
(* levels are percentages, delays are integers.                             *)
(***************************************************************************)
EXTENDS Integers, Sequences, FiniteSets

VARIABLES shapes, tilings, overlaps, polys, last

vars == <<shapes, tilings, overlaps, polys, last>>

(***************************************************************************)
(* Bounds of the model.                                                     *)
(***************************************************************************)
MaxTargets == 2
MaxAntennas == 2
MaxTime == 1
MaxSeed == 1
MaxShapes == 1
MaxAxis == 1
MaxBeams == 3
MaxRadius == 2
MaxSide == 2
MaxCount == 2
RasterSide == 3

(***************************************************************************)
(* Outcomes of a call.                                                      *)
(***************************************************************************)
Return(v) == [ok |-> TRUE, err |-> "ok", val |-> v]
Raise(e) == [ok |-> FALSE, err |-> e, val |-> <<>>]

(***************************************************************************)
(* DelayPolynomial                                                          *)
(***************************************************************************)

\* Time values as the caller passes them: a Python int, a Python float, or a
\* datetime object (a day count and the seconds within the day).
IntTimes == {[type |-> "int", val |-> n] : n \in 0..MaxTime}
FloatTimes == {[type |-> "float", val |-> n] : n \in 0..MaxTime}
DateTimes == {[type |-> "datetime", days |-> d, secs |-> s] :
                 d \in 0..MaxTime, s \in 0..MaxTime}
TimeInputs == IntTimes \cup FloatTimes \cup DateTimes

AntennaIds == 1..MaxAntennas
TargetIds == 1..MaxTargets
\* antenna lists <<1>>, <<1, 2>>, ...; target lists without repetition
AntennaLists == {[i \in 1..n |-> i] : n \in 1..MaxAntennas}
TargetLists == {s \in UNION {[1..n -> TargetIds] : n \in 0..MaxTargets} :
                   \A i, j \in DOMAIN s : i # j => s[i] # s[j]}
Durations == 0..MaxTime

\* coord.datetimeToEpoch: seconds since the epoch of a datetime, as a float
datetimeToEpoch(time) == [type |-> "float", val |-> time.days * 86400 + time.secs]

checkTime_NoConversion(time) == time

checkTime(time) ==
    IF time.type # "int" /\ time.type # "float"
    THEN datetimeToEpoch(time)
    ELSE time

DelayPolynomialInit(antennas, targets, timestamp, duration, reference) ==
    [antennas |-> antennas,
     timestamp |-> checkTime(timestamp),
     targets |-> targets,
     frequency |-> 1400000000,
     reference |-> reference,
     duration |-> duration]

setAntennas(p, antennas) ==
    /\ polys' = [polys EXCEPT ![p].antennas = antennas]
    /\ last' = [op |-> "DelayPolynomial.setAntennas", args |-> <<p, antennas>>,
                outcome |-> "ok", result |-> <<>>]
    /\ UNCHANGED <<shapes, tilings, overlaps>>

setTimestamp(p, timestamp) ==
    /\ polys' = [polys EXCEPT ![p].timestamp = checkTime(timestamp)]
    /\ last' = [op |-> "DelayPolynomial.setTimestamp", args |-> <<p, timestamp>>,
                outcome |-> "ok", result |-> <<>>]
    /\ UNCHANGED <<shapes, tilings, overlaps>>

setTimeDuration(p, duration) ==
    /\ polys' = [polys EXCEPT ![p].duration = duration]
    /\ last' = [op |-> "DelayPolynomial.setTimeDuration", args |-> <<p, duration>>,
                outcome |-> "ok", result |-> <<>>]
    /\ UNCHANGED <<shapes, tilings, overlaps>>

setTargets(p, targets) ==
    /\ polys' = [polys EXCEPT ![p].targets = targets]
    /\ last' = [op |-> "DelayPolynomial.setTargets", args |-> <<p, targets>>,
                outcome |-> "ok", result |-> <<>>]
    /\ UNCHANGED <<shapes, tilings, overlaps>>

setReference(p, reference) ==
    /\ polys' = [polys EXCEPT ![p].reference = reference]
    /\ last' = [op |-> "DelayPolynomial.setReference", args |-> <<p, reference>>,
                outcome |-> "ok", result |-> <<>>]
    /\ UNCHANGED <<shapes, tilings, overlaps>>

\* The delay-correction service (katpoint.DelayCorrection.corrections) is
\* outside the repository.  One call either fails or answers with a dict
\* keyed by input name, one input per antenna and polarisation (key
\* 10 * antenna + polarisation), each value a sequence of two samples
\* <<delay, rate>>.  The numbers depend on a seed the service picks per
\* call, on the input and on the sample, so that no two entries of an answer
\* need agree.
ServiceAnswers ==
    {[ok |-> TRUE, seed |-> s] : s \in 0..MaxSeed} \cup {[ok |-> FALSE, seed |-> 0]}

InputKeys(antennas) ==
    {10 * antennas[i] + pol : i \in DOMAIN antennas, pol \in 1..2}

corrections(antennas, answer) ==
    [k \in InputKeys(antennas) |->
        [j \in 1..2 |-> <<answer.seed * k + j, answer.seed + k + 3 * j>>]]

Min(S) == CHOOSE x \in S : \A y \in S : x <= y

RECURSIVE SortedSeq(_)
SortedSeq(S) == IF S = {} THEN <<>> ELSE <<Min(S)>> \o SortedSeq(S \ {Min(S)})

\* the values of a dict in the order of its sorted keys
dictToOrderList(dictObj) ==
    LET keys == SortedSeq(DOMAIN dictObj)
    IN  [i \in 1..Len(keys) |-> dictObj[keys[i]]]

\* delayArray[::2]
EveryOther(arr) == [i \in 1..((Len(arr) + 1) \div 2) |-> arr[2 * i - 1]]

\* arr[:, 0, :]
FirstSample(arr) == [i \in 1..Len(arr) |-> arr[i][1]]

\* the loop over the targets: one service call per target, the first failure
\* leaves the loop (and the method) at once
RECURSIVE QueryTargets_ContinueOnFailure(_, _, _, _, _)
QueryTargets_ContinueOnFailure(self, answers, i, targetArray, calls) ==
    IF i > Len(self.targets)
    THEN [raised |-> FALSE, targetArray |-> targetArray, calls |-> calls]
    ELSE LET call == [antennas |-> self.antennas, ref |-> self.reference,
                      freq |-> self.frequency, target |-> self.targets[i],
                      timestamp |-> <<self.timestamp.val,
                                      self.timestamp.val + self.duration>>,
                      answer |-> answers[i]]
         IN  IF ~answers[i].ok
             THEN QueryTargets_ContinueOnFailure(self, answers, i + 1,
                      targetArray, Append(calls, call))
             ELSE QueryTargets_ContinueOnFailure(self, answers, i + 1,
                      Append(targetArray, FirstSample(EveryOther(
                          dictToOrderList(corrections(self.antennas, answers[i]))))),
                      Append(calls, call))

RECURSIVE QueryTargets(_, _, _, _, _)
QueryTargets(self, answers, i, targetArray, calls) ==
    IF i > Len(self.targets)
    THEN [raised |-> FALSE, targetArray |-> targetArray, calls |-> calls]
    ELSE LET call == [antennas |-> self.antennas, ref |-> self.reference,
                      freq |-> self.frequency, target |-> self.targets[i],
                      timestamp |-> <<self.timestamp.val,
                                      self.timestamp.val + self.duration>>,
                      answer |-> answers[i]]
         IN  IF ~answers[i].ok
             THEN [raised |-> TRUE, targetArray |-> <<>>,
                   calls |-> Append(calls, call)]
             ELSE QueryTargets(self, answers, i + 1,
                      Append(targetArray, FirstSample(EveryOther(
                          dictToOrderList(corrections(self.antennas, answers[i]))))),
                      Append(calls, call))

\* targetArray - targetArray[k, :, :]
SubtractRow(targetArray, k) ==
    [t \in 1..Len(targetArray) |->
        [a \in 1..Len(targetArray[t]) |->
            [c \in 1..2 |-> targetArray[t][a][c] - targetArray[k][a][c]]]]

SubtractBoresight_LastRow(targetArray) == SubtractRow(targetArray, Len(targetArray))

\* targetArray - targetArray[0, :, :]
SubtractBoresight(targetArray) == SubtractRow(targetArray, 1)

getPolynomial(p) ==
    \E answers \in [1..Len(polys[p].targets) -> ServiceAnswers] :
        \E loop \in {QueryTargets(polys[p], answers, 1, <<>>, <<>>)} :
            /\ last' =
                 IF loop.raised
                 THEN [op |-> "DelayPolynomial.getPolynomial", args |-> <<p>>,
                       outcome |-> "UpstreamFailure", result |-> <<>>,
                       calls |-> loop.calls]
                 ELSE IF Len(loop.targetArray) = 0
                 THEN [op |-> "DelayPolynomial.getPolynomial", args |-> <<p>>,
                       outcome |-> "IndexError", result |-> <<>>,
                       calls |-> loop.calls]
                 ELSE [op |-> "DelayPolynomial.getPolynomial", args |-> <<p>>,
                       outcome |-> "ok",
                       result |-> <<SubtractBoresight(loop.targetArray)>>,
                       calls |-> loop.calls]
            /\ UNCHANGED <<shapes, tilings, overlaps, polys>>

InitDelay ==
    /\ shapes = <<>>
    /\ tilings = <<>>
    /\ overlaps = <<>>
    /\ \E antennas \in AntennaLists, targets \in TargetLists,
          timestamp \in TimeInputs, duration \in Durations,
          reference \in AntennaIds :
          /\ polys = <<DelayPolynomialInit(antennas, targets, timestamp,
                                           duration, reference)>>
          /\ last = [op |-> "DelayPolynomial.__init__",
                     args |-> <<1, timestamp>>, outcome |-> "ok", result |-> <<>>]

SetAntennas ==
    \E p \in 1..Len(polys), antennas \in AntennaLists : setAntennas(p, antennas)

SetTimestamp ==
    \E p \in 1..Len(polys), timestamp \in TimeInputs : setTimestamp(p, timestamp)

SetTimeDuration ==
    \E p \in 1..Len(polys), duration \in Durations : setTimeDuration(p, duration)

SetTargets ==
    \E p \in 1..Len(polys), targets \in TargetLists : setTargets(p, targets)

SetReference ==
    \E p \in 1..Len(polys), reference \in AntennaIds : setReference(p, reference)

GetPolynomial == \E p \in 1..Len(polys) : getPolynomial(p)

NextDelay ==
    \/ SetAntennas
    \/ SetTimestamp
    \/ SetTimeDuration
    \/ SetTargets
    \/ SetReference
    \/ GetPolynomial

SpecDelay == InitDelay /\ [][NextDelay]_vars

(***************************************************************************)
(* beamShape                                                                *)
(***************************************************************************)

\* axis lengths in degrees, angles in degrees, overlap levels in percent
Axes == 0..MaxAxis
Angles == {0, 180}
OverlapLevels == {0, 25, 50, 100, 125}
\* the levels the generators are called with: one outside, one inside (0,1)
TilingLevels == {0, 50}

\* the attributes horizon, psf, antennas and reference do not exist until
\* their setter has run: 0 stands for a missing attribute
beamShapeInit(axisH, axisV, angle) ==
    [axisH |-> axisH, axisV |-> axisV, angle |-> angle,
     horizon |-> 0, psf |-> 0, antennas |-> 0, reference |-> 0]

ShapeValues == {beamShapeInit(h, v, a) : h \in Axes, v \in Axes, a \in Angles}

\* utilities.normInverse: the distance from the mean at which a Gaussian of
\* standard deviation sigma has fallen to `percentile' of its peak,
\* sigma * sqrt(-2 ln(percentile)), in thousandths; a level outside (0, 1) is
\* a DomainError
QuantileMilli(percentile) ==
    CASE percentile = 25 -> 1665
      [] percentile = 50 -> 1177
      [] percentile = 75 -> 758

normInverse(percentile, mean, sigma) ==
    IF percentile <= 0 \/ percentile >= 100
    THEN Raise("DomainError")
    ELSE Return(mean + (sigma * QuantileMilli(percentile)) \div 1000)

\* sigma = axis * (2. / 2.3548200450309493), in thousandths of a degree
SigmaOf(axis) == (axis * 20000000) \div 23548

widthAtOverlap_SwallowsError(self, overlap) ==
    LET widthH == normInverse(overlap, 0, SigmaOf(self.axisH))
        widthV == normInverse(overlap, 0, SigmaOf(self.axisV))
    IN  IF ~widthH.ok \/ ~widthV.ok
        THEN Return(<<0, 0>>)
        ELSE Return(<<widthH.val, widthV.val>>)

widthAtOverlap(self, overlap) ==
    LET sigmaH == SigmaOf(self.axisH)
        sigmaV == SigmaOf(self.axisV)
        widthH == normInverse(overlap, 0, sigmaH)
        widthV == normInverse(overlap, 0, sigmaV)
    IN  IF ~widthH.ok THEN Raise(widthH.err)
        ELSE IF ~widthV.ok THEN Raise(widthV.err)
        ELSE Return(<<widthH.val, widthV.val>>)

\* beamShape(axisH, axisV, angle), while the heap has room
NewBeamShape ==
    \E axisH \in Axes, axisV \in Axes, angle \in Angles :
        LET obj == beamShapeInit(axisH, axisV, angle)
        IN  /\ Len(shapes) < MaxShapes
            /\ shapes' = Append(shapes, obj)
            /\ last' = [op |-> "beamShape.__init__",
                        args |-> <<axisH, axisV, angle>>,
                        outcome |-> "ok", result |-> <<obj>>]
            /\ UNCHANGED <<tilings, overlaps, polys>>

setHorizon(b, horizon) ==
    /\ shapes' = [shapes EXCEPT ![b].horizon = horizon]
    /\ last' = [op |-> "beamShape.setHorizon", args |-> <<b, horizon>>,
                outcome |-> "ok", result |-> <<>>]
    /\ UNCHANGED <<tilings, overlaps, polys>>

setPointSourceFunction(b, psf) ==
    /\ shapes' = [shapes EXCEPT ![b].psf = psf]
    /\ last' = [op |-> "beamShape.setPointSourceFunction", args |-> <<b, psf>>,
                outcome |-> "ok", result |-> <<>>]
    /\ UNCHANGED <<tilings, overlaps, polys>>

beamShape_setAntennas(b, antennas, reference) ==
    /\ shapes' = [shapes EXCEPT ![b].antennas = antennas,
                                ![b].reference = reference]
    /\ last' = [op |-> "beamShape.setAntennas", args |-> <<b, antennas, reference>>,
                outcome |-> "ok", result |-> <<>>]
    /\ UNCHANGED <<tilings, overlaps, polys>>

SetHorizon == \E b \in 1..Len(shapes) : setHorizon(b, 1)

SetPointSourceFunction == \E b \in 1..Len(shapes) : setPointSourceFunction(b, 1)

BeamShapeSetAntennas == \E b \in 1..Len(shapes) : beamShape_setAntennas(b, 1, 1)

WidthAtOverlap ==
    \E b \in 1..Len(shapes), overlap \in OverlapLevels :
        LET r == widthAtOverlap(shapes[b], overlap)
        IN  /\ last' = [op |-> "beamShape.widthAtOverlap",
                        args |-> <<b, overlap>>, outcome |-> r.err,
                        result |-> IF r.ok THEN <<r.val>> ELSE <<>>]
            /\ UNCHANGED <<shapes, tilings, overlaps, polys>>

(***************************************************************************)
(* tile.ellipseCompact, tile.ellipseGrid, beamshape.calculateBeamOverlaps   *)
(***************************************************************************)

Abs(x) == IF x < 0 THEN -x ELSE x

\* a rotation by a multiple of a quarter turn
Rotate(pt, angle) ==
    LET q == (angle \div 90) % 4
    IN  CASE q = 0 -> pt
          [] q = 1 -> <<-pt[2], pt[1]>>
          [] q = 2 -> <<-pt[1], -pt[2]>>
          [] q = 3 -> <<pt[2], -pt[1]>>

\* the ring of the n-th beam (n counted from 0, the centre): ring r holds the
\* 6r beams after the first 3r(r-1)+1
RingOf(n) ==
    IF n = 0 THEN 0
    ELSE CHOOSE r \in 1..n : 3 * r * (r + 1) >= n /\ 3 * r * (r - 1) < n

HexDir == <<<<2, 0>>, <<1, 2>>, <<-1, 2>>, <<-2, 0>>, <<-1, -2>>, <<1, -2>>>>

\* the place of the n-th beam in units of the half widths
HexPoint(n) ==
    IF n = 0 THEN <<0, 0>>
    ELSE LET r == RingOf(n)
             k == n - 3 * r * (r - 1) - 1
             d == HexDir[(k \div r) + 1]
             e == HexDir[(((k \div r) + 2) % 6) + 1]
         IN  <<r * d[1] + (k % r) * e[1], r * d[2] + (k % r) * e[2]>>

\* exactly beamNum centres on concentric rings round the centre, and the
\* radius of the outermost ring; fewer than one beam, or a beam of no width,
\* is a DomainError
ellipseCompact(beamNum, widthH, widthV, angle, scale) ==
    IF beamNum < 1 \/ widthH <= 0 \/ widthV <= 0
    THEN Raise("DomainError")
    ELSE Return(<<[n \in 1..beamNum |->
                      Rotate(<<HexPoint(n - 1)[1] * widthH,
                               HexPoint(n - 1)[2] * widthV>>, angle)],
                  RingOf(beamNum - 1) * 2 * widthH>>)

\* the centres of a regular grid of pitch (2 widthH, 2 widthV) that lie within
\* tilingRadius of the centre, as an array of the two coordinate rows; a
\* radius that is not positive, or a beam of no width, is a DomainError
ellipseGrid(tilingRadius, widthH, widthV, angle) ==
    IF tilingRadius <= 0 \/ widthH <= 0 \/ widthV <= 0
    THEN Raise("DomainError")
    ELSE LET kH == tilingRadius \div (2 * widthH)
             kV == tilingRadius \div (2 * widthV)
             all == [n \in 1..((2 * kH + 1) * (2 * kV + 1)) |->
                        <<(((n - 1) \div (2 * kV + 1)) - kH) * 2 * widthH,
                          (((n - 1) % (2 * kV + 1)) - kV) * 2 * widthV>>]
             Near(pt) == pt[1] * pt[1] + pt[2] * pt[2]
                           <= tilingRadius * tilingRadius
             kept == SelectSeq(all, Near)
         IN  Return(<<[n \in 1..Len(kept) |-> Rotate(kept[n], angle)[1]],
                      [n \in 1..Len(kept) |-> Rotate(kept[n], angle)[2]]>>)

\* array.T of a 2 x N array
Transpose(arr) == [n \in 1..Len(arr[1]) |-> <<arr[1][n], arr[2][n]>>]

\* the half widths the rasteriser gives a beam: those of widthAtOverlap, and
\* none when the level has no width
HalfWidths(axisH, axisV, overlap) ==
    LET w == widthAtOverlap(beamShapeInit(axisH, axisV, 0), overlap)
    IN  IF w.ok THEN w.val ELSE <<0, 0>>

\* the centre of the i-th cell of a row across [-radius, +radius]
CellCentre(i, radius) == (2 * radius * (i - 1)) \div (RasterSide - 1) - radius

\* whether the offset (dx, dy) lies in the ellipse of half widths (wH, wV) *
\* factor / 2, compared in hundredths of a degree
Covers(dx, dy, wH, wV, factor) ==
    LET x == Abs(dx) \div 100
        y == Abs(dy) \div 100
        a == (wH * factor) \div 200
        b == (wV * factor) \div 200
    IN  x * x * b * b + y * y * a * a <= a * a * b * b

RECURSIVE SumSeq(_)
SumSeq(s) == IF Len(s) = 0 THEN 0 ELSE Head(s) + SumSeq(Tail(s))

\* the coverage grid over [-tilingRadius, +tilingRadius]^2: in counter mode
\* the number of beams whose ellipse holds the cell, in heater mode the sum of
\* the beams' responses (2 within the ellipse, 1 within twice it, else 0)
calculateBeamOverlaps(coordinates, tilingRadius, axisH, axisV, angle, overlap, mode) ==
    LET w == HalfWidths(axisH, axisV, overlap)
        Offset(n, i, j) ==
            Rotate(<<CellCentre(i, tilingRadius) - coordinates[n][1],
                     CellCentre(j, tilingRadius) - coordinates[n][2]>>,
                   360 - (angle % 360))
        Response(n, i, j) ==
            LET d == Offset(n, i, j)
                near == IF Covers(d[1], d[2], w[1], w[2], 2) THEN 1 ELSE 0
                far == IF Covers(d[1], d[2], w[1], w[2], 4) THEN 1 ELSE 0
            IN  IF mode = "counter" THEN near ELSE near + far
    IN  [i \in 1..RasterSide |->
            [j \in 1..RasterSide |->
                SumSeq([n \in 1..Len(coordinates) |-> Response(n, i, j)])]]

(***************************************************************************)
(* Overlap                                                                  *)
(***************************************************************************)

Modes == {"counter", "heater"}

OverlapInit(metrics, mode) == [metrics |-> metrics, mode |-> mode]

\* overlapCounter > k and overlapCounter == k: the grid of the comparisons
GreaterThan(grid, k) == [i \in DOMAIN grid |-> [j \in DOMAIN grid[i] |-> grid[i][j] > k]]
EqualTo(grid, k) == [i \in DOMAIN grid |-> [j \in DOMAIN grid[i] |-> grid[i][j] = k]]
AtLeast(grid, k) == [i \in DOMAIN grid |-> [j \in DOMAIN grid[i] |-> grid[i][j] >= k]]

\* np.count_nonzero of a grid of booleans
CountNonzero(mask) ==
    Cardinality({c \in (DOMAIN mask) \X (1..Len(mask[1])) : mask[c[1]][c[2]]})

\* a fraction count / float(pointNum); a zero pointNum makes it a nan
Fraction(count, pointNum) == [num |-> count, den |-> pointNum]

calculateFractions_CountsSinglesTwice(self) ==
    IF self.mode = "heater"
    THEN <<Fraction(0, 1), Fraction(0, 1), Fraction(0, 1)>>
    ELSE LET overlapCounter == self.metrics
             overlapGrid == CountNonzero(AtLeast(overlapCounter, 1))
             nonOverlapGrid == CountNonzero(EqualTo(overlapCounter, 1))
             emptyGrid == CountNonzero(EqualTo(overlapCounter, 0))
             pointNum == overlapGrid + nonOverlapGrid + emptyGrid
         IN  <<Fraction(overlapGrid, pointNum), Fraction(nonOverlapGrid, pointNum),
               Fraction(emptyGrid, pointNum)>>

calculateFractions(self) ==
    IF self.mode = "heater"
    THEN <<Fraction(0, 1), Fraction(0, 1), Fraction(0, 1)>>
    ELSE LET overlapCounter == self.metrics
             overlapGrid == CountNonzero(GreaterThan(overlapCounter, 1))
             nonOverlapGrid == CountNonzero(EqualTo(overlapCounter, 1))
             emptyGrid == CountNonzero(EqualTo(overlapCounter, 0))
             pointNum == overlapGrid + nonOverlapGrid + emptyGrid
         IN  <<Fraction(overlapGrid, pointNum), Fraction(nonOverlapGrid, pointNum),
               Fraction(emptyGrid, pointNum)>>

\* a calculateFractions that writes its comparison back into self.metrics
CallCalculateFractions_ClobbersMetrics(o) ==
    /\ last' = [op |-> "Overlap.calculateFractions", args |-> <<o>>,
                outcome |-> "ok", result |-> <<calculateFractions(overlaps[o])>>]
    /\ overlaps' = [overlaps EXCEPT ![o].metrics =
                       [i \in DOMAIN @ |-> [j \in DOMAIN @[i] |->
                           IF @[i][j] > 1 THEN 1 ELSE 0]]]
    /\ UNCHANGED <<shapes, tilings, polys>>

CallCalculateFractions(o) ==
    /\ last' = [op |-> "Overlap.calculateFractions", args |-> <<o>>,
                outcome |-> "ok", result |-> <<calculateFractions(overlaps[o])>>]
    /\ UNCHANGED <<shapes, tilings, overlaps, polys>>

CalculateFractions == \E o \in 1..Len(overlaps) : CallCalculateFractions(o)

(***************************************************************************)
(* tiling and tilegen                                                       *)
(***************************************************************************)

tilingInit_CountsAxes(coordinates, beamShape, radius, overlap) ==
    [coordinates |-> coordinates, beamShape |-> beamShape,
     tilingRadius |-> radius, beamNum |-> Len(coordinates[1]),
     overlap |-> overlap]

tilingInit(coordinates, beamShape, radius, overlap) ==
    [coordinates |-> coordinates, beamShape |-> beamShape,
     tilingRadius |-> radius, beamNum |-> Len(coordinates),
     overlap |-> overlap]

\* newBeamShape is None or a beamShape object of the caller's
None == [axisH |-> -1, axisV |-> -1, angle |-> -1,
         horizon |-> -1, psf |-> -1, antennas |-> -1, reference |-> -1]

\* the Overlap returned, and the arguments handed to the rasteriser
calculateOverlap_IgnoresNewShape(self, mode, newBeamShape) ==
    LET beamShape == shapes[self.beamShape]
    IN  [overlap |-> OverlapInit(calculateBeamOverlaps(self.coordinates,
                         self.tilingRadius, beamShape.axisH, beamShape.axisV,
                         beamShape.angle, self.overlap, mode), mode),
         raster |-> <<self.coordinates, self.tilingRadius, beamShape.axisH,
                      beamShape.axisV, beamShape.angle, self.overlap, mode>>]

calculateOverlap(self, mode, newBeamShape) ==
    LET beamShape == IF newBeamShape = None THEN shapes[self.beamShape]
                     ELSE newBeamShape
    IN  [overlap |-> OverlapInit(calculateBeamOverlaps(self.coordinates,
                         self.tilingRadius, beamShape.axisH, beamShape.axisV,
                         beamShape.angle, self.overlap, mode), mode),
         raster |-> <<self.coordinates, self.tilingRadius, beamShape.axisH,
                      beamShape.axisV, beamShape.angle, self.overlap, mode>>]

\* the beamShape objects a caller passes as newBeamShape: a wider beam than
\* any the patterns were made with, and a round one
NewShapes == {beamShapeInit(MaxAxis + 1, 1, 90), beamShapeInit(1, 1, 0)}

CalculateOverlap ==
    \E t \in 1..Len(tilings), mode \in Modes,
       newBeamShape \in {None} \cup NewShapes :
        \E r \in {calculateOverlap(tilings[t], mode, newBeamShape)} :
            /\ last' = [op |-> "tiling.calculateOverlap",
                        args |-> <<t, mode, newBeamShape>>, outcome |-> "ok",
                        result |-> <<r.overlap>>, raster |-> r.raster]
            /\ UNCHANGED <<shapes, tilings, overlaps, polys>>

getTiling_ClampsBeamNum(b, beamNum, overlap) ==
    LET w == widthAtOverlap(shapes[b], overlap)
        e == ellipseCompact(IF beamNum < 1 THEN 1 ELSE beamNum,
                            w.val[1], w.val[2], shapes[b].angle, 10)
    IN  IF ~w.ok THEN Raise(w.err)
        ELSE IF ~e.ok THEN Raise(e.err)
        ELSE Return(tilingInit(e.val[1], b, e.val[2], overlap))

getTiling(b, beamNum, overlap) ==
    LET w == widthAtOverlap(shapes[b], overlap)
        e == ellipseCompact(beamNum, w.val[1], w.val[2], shapes[b].angle, 10)
    IN  IF ~w.ok THEN Raise(w.err)
        ELSE IF ~e.ok THEN Raise(e.err)
        ELSE Return(tilingInit(e.val[1], b, e.val[2], overlap))

getTilingWithinRadius(b, tilingRadius, overlap) ==
    LET w == widthAtOverlap(shapes[b], overlap)
        e == ellipseGrid(tilingRadius, w.val[1], w.val[2], shapes[b].angle)
    IN  IF ~w.ok THEN Raise(w.err)
        ELSE IF ~e.ok THEN Raise(e.err)
        ELSE Return(tilingInit(Transpose(e.val), b, tilingRadius, overlap))

BeamNums == -1..MaxBeams
\* radii in degrees, passed on in thousandths
Radii == -1..MaxRadius

\* a call of a generator or of calculateOverlap leaves its result with the
\* caller, in `last'
GetTiling ==
    \E b \in 1..Len(shapes), beamNum \in BeamNums, overlap \in TilingLevels :
        \E r \in {getTiling(b, beamNum, overlap)} :
            /\ last' = [op |-> "tilegen.getTiling",
                        args |-> <<b, beamNum, overlap>>, outcome |-> r.err,
                        result |-> IF r.ok THEN <<r.val>> ELSE <<>>]
            /\ UNCHANGED <<shapes, tilings, overlaps, polys>>

GetTilingWithinRadius ==
    \E b \in 1..Len(shapes), radius \in Radii, overlap \in TilingLevels :
        \E r \in {getTilingWithinRadius(b, radius * 1000, overlap)} :
            /\ last' = [op |-> "tilegen.getTilingWithinRadius",
                        args |-> <<b, radius * 1000, overlap>>, outcome |-> r.err,
                        result |-> IF r.ok THEN <<r.val>> ELSE <<>>]
            /\ UNCHANGED <<shapes, tilings, overlaps, polys>>

\* no object yet
InitShape ==
    /\ shapes = <<>>
    /\ tilings = <<>>
    /\ overlaps = <<>>
    /\ polys = <<>>
    /\ last = [op |-> "start", args |-> <<>>, outcome |-> "ok", result |-> <<>>]

NextShape ==
    \/ NewBeamShape
    \/ SetHorizon
    \/ SetPointSourceFunction
    \/ BeamShapeSetAntennas
    \/ WidthAtOverlap

SpecShape == InitShape /\ [][NextShape]_vars

\* one beamShape has been constructed
InitTiling ==
    /\ tilings = <<>>
    /\ overlaps = <<>>
    /\ polys = <<>>
    /\ \E axisH \in Axes, axisV \in Axes, angle \in Angles :
          /\ shapes = <<beamShapeInit(axisH, axisV, angle)>>
          /\ last = [op |-> "beamShape.__init__",
                     args |-> <<axisH, axisV, angle>>,
                     outcome |-> "ok", result |-> shapes]

NextGenerate ==
    \/ GetTiling
    \/ GetTilingWithinRadius

SpecGenerate == InitTiling /\ [][NextGenerate]_vars

\* a beamShape, a pattern a generator made with it and an Overlap that
\* calculateOverlap made of the pattern have been constructed
InitPattern ==
    /\ polys = <<>>
    /\ \E axisH \in Axes, axisV \in Axes, angle \in Angles :
          shapes = <<beamShapeInit(axisH, axisV, angle)>>
    /\ \E overlap \in TilingLevels :
          \/ \E beamNum \in BeamNums :
                /\ getTiling(1, beamNum, overlap).ok
                /\ tilings = <<getTiling(1, beamNum, overlap).val>>
          \/ \E radius \in Radii :
                /\ getTilingWithinRadius(1, radius * 1000, overlap).ok
                /\ tilings = <<getTilingWithinRadius(1, radius * 1000, overlap).val>>
    /\ \E mode \in Modes, newBeamShape \in {None} \cup NewShapes :
          overlaps = <<calculateOverlap(tilings[1], mode, newBeamShape).overlap>>
    /\ last = [op |-> "start", args |-> <<>>, outcome |-> "ok", result |-> <<>>]

NextTiling ==
    \/ SetHorizon
    \/ SetPointSourceFunction
    \/ BeamShapeSetAntennas
    \/ GetTiling
    \/ GetTilingWithinRadius
    \/ CalculateOverlap
    \/ CalculateFractions

SpecTiling == InitPattern /\ [][NextTiling]_vars

\* a counter or heater grid of up to MaxSide x MaxSide cells of 0..MaxCount
Grids ==
    UNION {[1..rows -> [1..cols -> 0..MaxCount]] :
              rows \in 1..MaxSide, cols \in 1..MaxSide}

InitFractions ==
    /\ shapes = <<>>
    /\ tilings = <<>>
    /\ polys = <<>>
    /\ \E metrics \in Grids, mode \in Modes :
          /\ overlaps = <<OverlapInit(metrics, mode)>>
          /\ last = [op |-> "Overlap.__init__", args |-> <<metrics, mode>>,
                     outcome |-> "ok", result |-> <<>>]

NextFractions == CalculateFractions

SpecFractions == InitFractions /\ [][NextFractions]_vars

(***************************************************************************)
(* Properties of beamShape, tilegen, tiling and Overlap                     *)
(***************************************************************************)

\* C1: for a counter-mode Overlap whose grid holds non-negative integers,
\* calculateFractions counts the cells above 1, equal to 1 and equal to 0; the
\* three counts add up to the number of cells, every fraction is a count over
\* that number (so it lies in [0,1]) and the three fractions add up to 1.
C1_FractionsPartition ==
    (last.op = "Overlap.calculateFractions"
       /\ overlaps[last.args[1]].mode = "counter") =>
        LET grid == overlaps[last.args[1]].metrics
            cells == (DOMAIN grid) \X (1..Len(grid[1]))
            total == Cardinality(cells)
            f == last.result[1]
        IN  /\ f[1].num = Cardinality({c \in cells : grid[c[1]][c[2]] > 1})
            /\ f[2].num = Cardinality({c \in cells : grid[c[1]][c[2]] = 1})
            /\ f[3].num = Cardinality({c \in cells : grid[c[1]][c[2]] = 0})
            /\ f[1].num + f[2].num + f[3].num = total
            /\ \A k \in 1..3 : /\ f[k].den = total
                               /\ f[k].den > 0
                               /\ 0 <= f[k].num
                               /\ f[k].num <= f[k].den

\* a counter grid with an overlapping, a singly covered and an empty cell
C1_Witness ==
    /\ last.op = "Overlap.calculateFractions"
    /\ overlaps[last.args[1]].mode = "counter"
    /\ \A k \in 1..3 : last.result[1][k].num >= 1

IsValidLevel(overlap) == overlap > 0 /\ overlap < 100

C4_Step ==
    (last'.op = "beamShape.widthAtOverlap" /\ ~IsValidLevel(last'.args[2])) =>
        /\ last'.outcome = "DomainError"
        /\ Len(last'.result) = 0
        /\ shapes' = shapes

C5_Step ==
    /\ (last'.op = "tilegen.getTiling" /\ last'.args[2] < 1) =>
          /\ last'.outcome # "ok"
          /\ Len(last'.result) = 0
          /\ tilings' = tilings
    /\ (last'.op = "tilegen.getTilingWithinRadius" /\ last'.args[2] <= 0) =>
          /\ last'.outcome # "ok"
          /\ Len(last'.result) = 0
          /\ tilings' = tilings

C6_OverrideOrOwnShape ==
    last.op = "tiling.calculateOverlap" =>
        LET self == tilings[last.args[1]]
            used == IF last.args[3] = None THEN shapes[self.beamShape]
                    ELSE last.args[3]
        IN  /\ last.raster = <<self.coordinates, self.tilingRadius, used.axisH,
                               used.axisV, used.angle, self.overlap, last.args[2]>>
            /\ last.outcome = "ok"
            /\ last.result[1].mode = last.args[2]
            /\ last.result[1].metrics =
                   calculateBeamOverlaps(self.coordinates, self.tilingRadius,
                       used.axisH, used.axisV, used.angle, self.overlap,
                       last.args[2])

\* a newBeamShape wider than the pattern's own beam was rasterised
C6_Witness ==
    /\ last.op = "tiling.calculateOverlap"
    /\ last.args[3] # None
    /\ last.raster[3] = last.args[3].axisH
    /\ last.raster[3] # shapes[tilings[last.args[1]].beamShape].axisH
    /\ last.raster[5] # shapes[tilings[last.args[1]].beamShape].angle
    /\ last.result[1].mode = "counter"

\* C8: every beamShape has axisH >= axisV > 0 and its angle in [0, 180), and a
\* constructor call with other values is rejected.
C8_EveryShapeWellFormed ==
    /\ \A b \in 1..Len(shapes) :
          /\ shapes[b].axisH >= shapes[b].axisV
          /\ shapes[b].axisV > 0
          /\ shapes[b].angle >= 0
          /\ shapes[b].angle < 180
    /\ (last.op = "beamShape.__init__"
          /\ (last.args[1] < last.args[2] \/ last.args[2] <= 0)) =>
             last.outcome = "DomainError"

C10_Step ==
    last'.op \in {"tilegen.getTiling", "tilegen.getTilingWithinRadius",
                  "tiling.calculateOverlap", "Overlap.calculateFractions",
                  "beamShape.setHorizon", "beamShape.setAntennas",
                  "beamShape.setPointSourceFunction"} =>
        /\ Len(shapes') = Len(shapes)
        /\ \A b \in 1..Len(shapes) :
              /\ shapes'[b].axisH = shapes[b].axisH
              /\ shapes'[b].axisV = shapes[b].axisV
              /\ shapes'[b].angle = shapes[b].angle
        /\ Len(tilings') >= Len(tilings)
        /\ \A t \in 1..Len(tilings) :
              /\ tilings'[t].coordinates = tilings[t].coordinates
              /\ tilings'[t].tilingRadius = tilings[t].tilingRadius
              /\ tilings'[t].overlap = tilings[t].overlap
              /\ tilings'[t].beamNum = tilings[t].beamNum
        /\ Len(overlaps') >= Len(overlaps)
        /\ \A o \in 1..Len(overlaps) :
              /\ overlaps'[o].metrics = overlaps[o].metrics
              /\ overlaps'[o].mode = overlaps[o].mode

\* C10: no getTiling, getTilingWithinRadius, calculateOverlap,
\* calculateFractions, setHorizon, setAntennas or setPointSourceFunction call
\* changes the axisH, axisV or angle of a beamShape, the coordinates,
\* tilingRadius, overlap or beamNum of an existing tiling, or the metrics or
\* mode of an existing Overlap: results are new objects, and a change to the
\* shared beamShape leaves the patterns made with it as they were.
C10_InputsReadOnly == [][C10_Step]_vars

\* the shared beamShape was decorated while a pattern made with it and an
\* Overlap of that pattern exist
C10_Witness ==
    /\ last.op = "beamShape.setHorizon"
    /\ Len(tilings) = 1
    /\ tilings[1].beamShape = last.args[1]
    /\ tilings[1].beamNum = 3
    /\ shapes[1].horizon # 0
    /\ Len(overlaps) = 1
    /\ overlaps[1].mode = "counter"

(***************************************************************************)
(* Properties of DelayPolynomial                                            *)
(***************************************************************************)

\* what the service answered for antenna a (first polarisation, first sample)
\* at the call-th call of the last getPolynomial
RawEntry(call, a) ==
    corrections(call.antennas, call.answer)[10 * call.antennas[a] + 1][1]

\* C2: when getPolynomial returns, entry [t][a][c] of the returned array is the
\* raw (delay, rate) value of target t at antenna a minus the raw value of
\* target index 0 at that antenna, there is one row per target and one entry
\* per antenna, and the row of target index 0 is zero everywhere.
C2_RelativeToBoresight ==
    (last.op = "DelayPolynomial.getPolynomial" /\ last.outcome = "ok") =>
        LET self == polys[last.args[1]]
            res == last.result[1]
        IN  /\ Len(res) = Len(self.targets)
            /\ \A t \in 1..Len(res) :
                  /\ Len(res[t]) = Len(self.antennas)
                  /\ \A a \in 1..Len(res[t]), c \in 1..2 :
                        res[t][a][c] = RawEntry(last.calls[t], a)[c]
                                         - RawEntry(last.calls[1], a)[c]
            /\ \A a \in 1..Len(res[1]), c \in 1..2 : res[1][a][c] = 0

\* a returned array of two targets and two antennas whose second row is not zero
C2_Witness ==
    /\ last.op = "DelayPolynomial.getPolynomial"
    /\ last.outcome = "ok"
    /\ Len(last.result[1]) = 2
    /\ Len(last.result[1][2]) = 2
    /\ last.result[1][2][2][1] # 0
    /\ last.result[1][1][2][1] = 0

\* C7: a getPolynomial call queries the service for the targets in their order,
\* each time over (timestamp, timestamp + duration) with the stored antennas,
\* reference and frequency; every call before the last one made succeeded; a
\* failed call is the last one made, reaches the caller as the failure with
\* nothing returned; without a failure every target was queried exactly once;
\* and the configuration is what it was.
C7_Step ==
    last'.op = "DelayPolynomial.getPolynomial" =>
        LET self == polys[last'.args[1]]
            calls == last'.calls
            n == Len(calls)
        IN  /\ polys' = polys
            /\ n <= Len(self.targets)
            /\ \A i \in 1..n :
                  /\ calls[i].target = self.targets[i]
                  /\ calls[i].timestamp = <<self.timestamp.val,
                                            self.timestamp.val + self.duration>>
                  /\ calls[i].antennas = self.antennas
                  /\ calls[i].ref = self.reference
                  /\ calls[i].freq = self.frequency
                  /\ i < n => calls[i].answer.ok
            /\ (last'.outcome = "UpstreamFailure") <=>
                  (n >= 1 /\ ~calls[n].answer.ok)
            /\ last'.outcome = "UpstreamFailure" => Len(last'.result) = 0
            /\ last'.outcome # "UpstreamFailure" => n = Len(self.targets)

C7_OncePerTargetNoRetry == [][C7_Step]_vars

\* the first of two targets failed: one call was made, nothing was returned
C7_Witness ==
    /\ last.op = "DelayPolynomial.getPolynomial"
    /\ last.outcome = "UpstreamFailure"
    /\ Len(polys[last.args[1]].targets) = 2
    /\ Len(last.calls) = 1
    /\ Len(last.result) = 0

\* the stored form of a time value: an int or float as given, a datetime as
\* its epoch seconds
IsEpochOf(stored, given) ==
    /\ stored.type \in {"int", "float"}
    /\ given.type \in {"int", "float"} => stored = given
    /\ given.type = "datetime" => stored = datetimeToEpoch(given)

\* what the constructor left behind, seen at the first call after it
C9_Constructed ==
    last.op = "DelayPolynomial.__init__" =>
        /\ IsEpochOf(polys[last.args[1]].timestamp, last.args[2])
        /\ polys[last.args[1]].frequency = 1400000000

C9_Step ==
    LET p == last'.args[1]
        Same(fields) == \A f \in fields : polys'[p][f] = polys[p][f]
    IN  /\ C9_Constructed
        /\ last'.op = "DelayPolynomial.setAntennas" =>
              /\ polys'[p].antennas = last'.args[2]
              /\ Same({"targets", "timestamp", "duration", "reference", "frequency"})
        /\ last'.op = "DelayPolynomial.setTargets" =>
              /\ polys'[p].targets = last'.args[2]
              /\ Same({"antennas", "timestamp", "duration", "reference", "frequency"})
        /\ last'.op = "DelayPolynomial.setTimestamp" =>
              /\ IsEpochOf(polys'[p].timestamp, last'.args[2])
              /\ Same({"antennas", "targets", "duration", "reference", "frequency"})
        /\ last'.op = "DelayPolynomial.setTimeDuration" =>
              /\ polys'[p].duration = last'.args[2]
              /\ Same({"antennas", "targets", "timestamp", "reference", "frequency"})
        /\ last'.op = "DelayPolynomial.setReference" =>
              /\ polys'[p].reference = last'.args[2]
              /\ Same({"antennas", "targets", "timestamp", "duration", "frequency"})
        /\ polys'[p].frequency = 1400000000

\* C9: each setter stores its argument in its own field and leaves the other
\* four fields and the frequency (1.4e9) as they were; the constructor and
\* setTimestamp store the time in epoch-seconds form (an int or float as given,
\* a datetime converted).
C9_IndependentSetters == [][C9_Step]_vars

\* setTimestamp was given a datetime of one day and one second, and every
\* setter has something to leave alone
C9_Witness ==
    /\ last.op = "DelayPolynomial.setTimestamp"
    /\ last.args[2].type = "datetime"
    /\ last.args[2].days = 1
    /\ last.args[2].secs = 1
    /\ polys[last.args[1]].timestamp = [type |-> "float", val |-> 86401]
    /\ Len(polys[last.args[1]].targets) = 2

====
